---- MODULE Spec2Model ----
(***************************************************************************)
(* Model of the host-port-pair crate (src/src/lib.rs): the Host and        *)
(* HostPortPair value types, their conversions from strings, addresses and *)
(* tuples, and their Display implementations.                              *)
(*                                                                         *)
(* A Rust string is modelled as the sequence of its UTF-8 bytes.  An ASCII *)
(* byte is written as the one-character string of that character; the two  *)
(* bytes of U+00E9 are written "C3" and "A9".                              *)
(***************************************************************************)
EXTENDS Integers, Sequences, FiniteSets, TLC

VARIABLES input, pc, op, res, shown, back

vars == <<input, pc, op, res, shown, back>>

(***************************************************************************)
(* Bounds of the model.                                                    *)
(***************************************************************************)
\* Longest input enumerated exhaustively over Alphabet.
MaxLen == 4

(***************************************************************************)
(* Program constants.                                                      *)
(***************************************************************************)
\* Largest value of the port field's type, u16.
U16Max == 65535
\* Largest value of one octet of an Ipv4Addr, u8.
U8Max == 255

(***************************************************************************)
(* Digits: char::to_digit as used by the standard parsers that             *)
(* str::parse::<u16>() and str::parse::<IpAddr>() dispatch to.             *)
(***************************************************************************)
LowerHex == <<"0", "1", "2", "3", "4", "5", "6", "7", "8", "9",
              "a", "b", "c", "d", "e", "f">>

UpperHex == <<"0", "1", "2", "3", "4", "5", "6", "7", "8", "9",
              "A", "B", "C", "D", "E", "F">>

\* F applied to the value of e: e is evaluated once, before F is.
Bind(e, F(_)) == CHOOSE y \in {F(x) : x \in {e}} : TRUE

\* The digit's value in the radix, or -1 when the byte is no digit of it.
ToDigit(c, radix) ==
  IF \E i \in 1..radix : LowerHex[i] = c \/ UpperHex[i] = c
  THEN (CHOOSE i \in 1..radix : LowerHex[i] = c \/ UpperHex[i] = c) - 1
  ELSE -1

(***************************************************************************)
(* port.parse::<u16>(): an optional single '+', then one or more decimal   *)
(* digits accumulated with overflow checks.  No sign is stripped for '-'   *)
(* on an unsigned type, so it is an invalid digit.                         *)
(***************************************************************************)
IntOk(n) == [ok |-> TRUE, val |-> n, err |-> "None"]

IntErr(e) == [ok |-> FALSE, val |-> 0, err |-> e]

RECURSIVE U16Digits(_, _, _)
U16Digits(digits, i, acc) ==
  IF i > Len(digits) THEN IntOk(acc)
  ELSE LET Step(x) ==
             IF x < 0 THEN IntErr("InvalidDigit")
             ELSE IF acc * 10 + x > U16Max THEN IntErr("PosOverflow")
             ELSE Bind(acc * 10 + x, LAMBDA a : U16Digits(digits, i + 1, a))
       IN Bind(ToDigit(digits[i], 10), Step)

\* Fault: the port is parsed as a non-zero integer, so "0" is refused.
U16FromStr_NonZero(src) ==
  IF Len(src) = 0 THEN IntErr("Empty")
  ELSE IF Len(src) = 1 /\ src[1] \in {"+", "-"} THEN IntErr("InvalidDigit")
  ELSE Bind(IF src[1] = "+" THEN U16Digits(Tail(src), 1, 0) ELSE U16Digits(src, 1, 0),
            LAMBDA r : IF r.ok /\ r.val = 0 THEN IntErr("Zero") ELSE r)

\* Fault: no sign is accepted, so a leading '+' is an invalid digit.
U16FromStr_NoSign(src) ==
  IF Len(src) = 0 THEN IntErr("Empty")
  ELSE U16Digits(src, 1, 0)

U16FromStr(src) ==
  IF Len(src) = 0 THEN IntErr("Empty")
  ELSE IF Len(src) = 1 /\ src[1] \in {"+", "-"} THEN IntErr("InvalidDigit")
  ELSE IF src[1] = "+" THEN U16Digits(Tail(src), 1, 0)
  ELSE U16Digits(src, 1, 0)

(***************************************************************************)
(* host.parse::<IpAddr>(): the standard library's address parser, a        *)
(* recursive-descent reader over the bytes.  A reader takes a position and *)
(* returns whether it read, what, and the position after it; a reader that *)
(* fails consumes nothing.                                                 *)
(***************************************************************************)
RECURSIVE DigitRun(_, _, _)
\* The number of consecutive digits of the radix from position pos.
DigitRun(s, pos, radix) ==
  IF pos > Len(s) \/ ToDigit(s[pos], radix) < 0 THEN 0
  ELSE 1 + DigitRun(s, pos + 1, radix)

RECURSIVE DigitsValue(_, _, _, _)
DigitsValue(s, pos, n, radix) ==
  IF n = 0 THEN 0
  ELSE DigitsValue(s, pos, n - 1, radix) * radix + ToDigit(s[pos + n - 1], radix)

NoRead(pos) == [ok |-> FALSE, val |-> 0, pos |-> pos]

\* read_number(radix, Some(maxDigits), allowZeroPrefix) into a type of maximum maxVal.
ReadNumber(s, pos, radix, maxDigits, allowZeroPrefix, maxVal) ==
  LET Value(n, v) ==
        IF v > maxVal THEN NoRead(pos)
        ELSE [ok |-> TRUE, val |-> v, pos |-> pos + n]
      Count(n) ==
        IF n = 0 \/ n > maxDigits THEN NoRead(pos)
        ELSE IF ~allowZeroPrefix /\ s[pos] = "0" /\ n > 1 THEN NoRead(pos)
        ELSE Bind(DigitsValue(s, pos, n, radix), LAMBDA v : Value(n, v))
  IN Bind(DigitRun(s, pos, radix), Count)

\* read_separator: for every group but the first, the separator comes first.
\* The position after the separator, or 0 when the separator is missing.
AfterSeparator(s, pos, sep, index) ==
  IF index = 0 THEN pos
  ELSE IF pos <= Len(s) /\ s[pos] = sep THEN pos + 1
  ELSE 0

RECURSIVE ReadV4Groups(_, _, _, _)
ReadV4Groups(s, pos, i, acc) ==
  IF i = 4 THEN [ok |-> TRUE, octets |-> acc, pos |-> pos]
  ELSE LET none == [ok |-> FALSE, octets |-> <<>>, pos |-> pos]
           Group(r) ==
             IF ~r.ok THEN none
             ELSE Bind(Append(acc, r.val),
                       LAMBDA a : ReadV4Groups(s, r.pos, i + 1, a))
           Sep(p) ==
             IF p = 0 THEN none
             ELSE Bind(ReadNumber(s, p, 10, 3, FALSE, U8Max), Group)
       IN Bind(AfterSeparator(s, pos, ".", i), Sep)

\* read_ipv4_addr: four decimal octets separated by dots, read atomically.
ReadIpv4Addr(s, pos) ==
  Bind(ReadV4Groups(s, pos, 0, <<>>),
       LAMBDA r : IF r.ok THEN r ELSE [ok |-> FALSE, octets |-> <<>>, pos |-> pos])

RECURSIVE ReadGroups(_, _, _, _, _)
\* read_groups: up to limit 16-bit groups separated by colons, the last two of
\* which may be an embedded IPv4 address.
ReadGroups(s, pos, limit, i, acc) ==
  IF i >= limit THEN [n |-> i, ipv4 |-> FALSE, pos |-> pos, groups |-> acc]
  ELSE LET Group(g) ==
             IF g.ok
             THEN Bind(Append(acc, g.val),
                       LAMBDA a : ReadGroups(s, g.pos, limit, i + 1, a))
             ELSE [n |-> i, ipv4 |-> FALSE, pos |-> pos, groups |-> acc]
           Embedded(p, v4) ==
             IF v4.ok
             THEN [n |-> i + 2, ipv4 |-> TRUE, pos |-> v4.pos,
                   groups |-> acc \o <<v4.octets[1] * 256 + v4.octets[2],
                                       v4.octets[3] * 256 + v4.octets[4]>>]
             ELSE Bind(IF p # 0 THEN ReadNumber(s, p, 16, 4, TRUE, U16Max)
                       ELSE NoRead(pos), Group)
           Sep(p) ==
             Bind(IF i < limit - 1 /\ p # 0 THEN ReadIpv4Addr(s, p)
                  ELSE [ok |-> FALSE, octets |-> <<>>, pos |-> pos],
                  LAMBDA v4 : Embedded(p, v4))
       IN Bind(AfterSeparator(s, pos, ":", i), Sep)

Zeros(n) == [k \in 1..n |-> 0]

\* read_ipv6_addr: eight groups, or a head and a tail around one "::".
ReadIpv6Addr(s, pos) ==
  LET none == [ok |-> FALSE, segs |-> <<>>, pos |-> pos]
      Back(head, tail) ==
        [ok |-> TRUE,
         segs |-> head.groups \o Zeros(8 - head.n - tail.n) \o tail.groups,
         pos |-> tail.pos]
      Front(head) ==
        IF head.n = 8 THEN [ok |-> TRUE, segs |-> head.groups, pos |-> head.pos]
        ELSE IF head.ipv4 THEN none
        ELSE IF ~(head.pos + 1 <= Len(s) /\ s[head.pos] = ":"
                  /\ s[head.pos + 1] = ":")
        THEN none
        ELSE Bind(ReadGroups(s, head.pos + 2, 8 - (head.n + 1), 0, <<>>),
                  LAMBDA tail : Back(head, tail))
  IN Bind(ReadGroups(s, pos, 8, 0, <<>>), Front)

V4(octets) == [v |-> 4, a |-> octets]

V6(segs) == [v |-> 6, a |-> segs]

NoIp == [v |-> 0, a |-> <<>>]

\* IpAddr::from_str: an IPv4 address, else an IPv6 address, and then the end
\* of the input.
IpAddrFromStr(s) ==
  LET Six(r6) ==
        IF r6.ok /\ r6.pos = Len(s) + 1 THEN [ok |-> TRUE, ip |-> V6(r6.segs)]
        ELSE [ok |-> FALSE, ip |-> NoIp]
      Four(r4) ==
        IF r4.ok
        THEN IF r4.pos = Len(s) + 1 THEN [ok |-> TRUE, ip |-> V4(r4.octets)]
             ELSE [ok |-> FALSE, ip |-> NoIp]
        ELSE Bind(ReadIpv6Addr(s, 1), Six)
  IN Bind(ReadIpv4Addr(s, 1), Four)

(***************************************************************************)
(* Host and HostPortPair values.                                           *)
(***************************************************************************)
\* Host::IpAddr(ip)
HostIpAddr(ip) == [tag |-> "IpAddr", ip |-> ip, name |-> <<>>]

\* Host::DnsName(name)
HostDnsName(name) == [tag |-> "DnsName", ip |-> NoIp, name |-> name]

NoHost == [tag |-> "None", ip |-> NoIp, name |-> <<>>]

\* Ok(HostPortPair { host, port })
OkPair(host, port) ==
  [tag |-> "Ok", host |-> host, port |-> port, err |-> "None", cause |-> "None"]

\* Err(HostPortPairError::NoPort)
ErrNoPort ==
  [tag |-> "Err", host |-> NoHost, port |-> 0, err |-> "NoPort", cause |-> "None"]

\* Err(HostPortPairError::ParsePort(cause)), made by the ? operator.
ErrParsePort(cause) ==
  [tag |-> "Err", host |-> NoHost, port |-> 0, err |-> "ParsePort", cause |-> cause]

\* The value of an infallible conversion into a Host.
JustHost(host) ==
  [tag |-> "Host", host |-> host, port |-> 0, err |-> "None", cause |-> "None"]

Nothing ==
  [tag |-> "None", host |-> NoHost, port |-> 0, err |-> "None", cause |-> "None"]

\* Host::is_ip_address
is_ip_address(host) == host.tag = "IpAddr"

\* Host::is_dns_name
is_dns_name(host) == host.tag = "DnsName"

(***************************************************************************)
(* Conversions into a Host.                                                *)
(***************************************************************************)
\* impl From<IpAddr> / From<Ipv4Addr> / From<Ipv6Addr> for Host
HostFromIpAddr(ip) == HostIpAddr(ip)

\* impl From<String> for Host
HostFromString(host) ==
  Bind(IpAddrFromStr(host),
       LAMBDA r : IF r.ok THEN HostIpAddr(r.ip) ELSE HostDnsName(host))

RECURSIVE TrimEnd(_)
TrimEnd(s) ==
  IF Len(s) > 0 /\ s[Len(s)] = " " THEN TrimEnd(SubSeq(s, 1, Len(s) - 1)) ELSE s

\* Fault: the name is stored with its trailing spaces trimmed.
HostFromStringRef_Trimmed(host) ==
  Bind(IpAddrFromStr(host),
       LAMBDA r : IF r.ok THEN HostIpAddr(r.ip) ELSE HostDnsName(TrimEnd(host)))

\* impl From<&String> for Host
HostFromStringRef(host) ==
  Bind(IpAddrFromStr(host),
       LAMBDA r : IF r.ok THEN HostIpAddr(r.ip) ELSE HostDnsName(host))

\* Fault: only a text with a colon is tried as an address, so a dotted quad
\* is taken for a name.
HostFromStr_NameFirst(host) ==
  IF \A k \in 1..Len(host) : host[k] # ":" THEN HostDnsName(host)
  ELSE Bind(IpAddrFromStr(host),
            LAMBDA r : IF r.ok THEN HostIpAddr(r.ip) ELSE HostDnsName(host))

\* Fault: the brackets around a text are dropped before it is tried as an
\* address, so "[::1]" is read as ::1.
HostFromStr_Unbracket(host) ==
  LET inner == IF Len(host) >= 2 /\ host[1] = "[" /\ host[Len(host)] = "]"
               THEN SubSeq(host, 2, Len(host) - 1) ELSE host
  IN Bind(IpAddrFromStr(inner),
          LAMBDA r : IF r.ok THEN HostIpAddr(r.ip) ELSE HostDnsName(host))

\* impl From<&str> for Host
HostFromStr(host) ==
  Bind(IpAddrFromStr(host),
       LAMBDA r : IF r.ok THEN HostIpAddr(r.ip) ELSE HostDnsName(host))

(***************************************************************************)
(* Conversions into a HostPortPair.                                        *)
(***************************************************************************)
\* impl From<(T, u16)> for HostPortPair, T a string
PairFromTuple(host, port) == OkPair(HostFromStr(host), port)

\* impl From<SocketAddr> for HostPortPair
PairFromSocketAddr(ip, port) == OkPair(HostIpAddr(ip), port)

\* impl From<SocketAddrV4> for HostPortPair
PairFromSocketAddrV4(ip, port) == OkPair(HostFromIpAddr(ip), port)

\* impl From<SocketAddrV6> for HostPortPair
PairFromSocketAddrV6(ip, port) == OkPair(HostFromIpAddr(ip), port)

\* The index of the last ':' of s, or 0 when s holds none.
LastColon(s) ==
  IF \E i \in 1..Len(s) : s[i] = ":"
  THEN CHOOSE i \in 1..Len(s) : s[i] = ":" /\ \A j \in (i + 1)..Len(s) : s[j] # ":"
  ELSE 0

\* Fault: a split with nothing after the colon counts as no split.
RSplitOnce_NonEmpty(s) ==
  LET Split(i) ==
        IF i = 0 \/ i = Len(s) THEN [some |-> FALSE, host |-> <<>>, port |-> <<>>]
        ELSE [some |-> TRUE, host |-> SubSeq(s, 1, i - 1),
              port |-> SubSeq(s, i + 1, Len(s))]
  IN Bind(LastColon(s), Split)

\* s.rsplit_once(':')
RSplitOnce(s) ==
  LET Split(i) ==
        IF i = 0 THEN [some |-> FALSE, host |-> <<>>, port |-> <<>>]
        ELSE [some |-> TRUE, host |-> SubSeq(s, 1, i - 1),
              port |-> SubSeq(s, i + 1, Len(s))]
  IN Bind(LastColon(s), Split)

\* Fault: the truncation is off by one and keeps the colon.
Truncate_KeepColon(s, new_len) ==
  IF new_len + 1 <= Len(s) THEN SubSeq(s, 1, new_len + 1) ELSE s

\* String::truncate(new_len): the first new_len bytes.
Truncate(s, new_len) == IF new_len <= Len(s) THEN SubSeq(s, 1, new_len) ELSE s

\* impl TryFrom<String> for HostPortPair
TryFromString(s) ==
  LET Port(sp, port) ==
        IF ~port.ok THEN ErrParsePort(port.err)
        ELSE OkPair(HostFromString(Truncate(s, Len(sp.host))), port.val)
      Split(sp) ==
        IF ~sp.some THEN ErrNoPort
        ELSE Bind(U16FromStr(sp.port), LAMBDA port : Port(sp, port))
  IN Bind(RSplitOnce(s), Split)

\* impl TryFrom<&String> for HostPortPair
TryFromStringRef(s) ==
  LET Port(sp, port) ==
        IF ~port.ok THEN ErrParsePort(port.err)
        ELSE OkPair(HostFromStr(sp.host), port.val)
      Split(sp) ==
        IF ~sp.some THEN ErrNoPort
        ELSE Bind(U16FromStr(sp.port), LAMBDA port : Port(sp, port))
  IN Bind(RSplitOnce(s), Split)

\* Fault: the host part is validated as a domain name, and a byte other than
\* an ASCII letter, a digit, '-', '.' or '_' is an error.
TryFromStr_Validating(s) ==
  LET ok == {"-", ".", "_"} \cup {LowerHex[k] : k \in 1..10}
            \cup {"a", "b", "c", "d", "e", "f", "g", "h", "i", "j", "k", "l", "m",
                  "n", "o", "p", "q", "r", "s", "t", "u", "v", "w", "x", "y", "z",
                  "A", "B", "C", "D", "E", "F", "G", "H", "I", "J", "K", "L", "M",
                  "N", "O", "P", "Q", "R", "S", "T", "U", "V", "W", "X", "Y", "Z"}
      Port(sp, port) ==
        IF ~port.ok THEN ErrParsePort(port.err)
        ELSE IF \E k \in 1..Len(sp.host) : sp.host[k] \notin ok
        THEN [tag |-> "Err", host |-> NoHost, port |-> 0,
              err |-> "InvalidCharacterInDomain", cause |-> "None"]
        ELSE OkPair(HostFromStr(sp.host), port.val)
      Split(sp) ==
        IF ~sp.some THEN ErrNoPort
        ELSE Bind(U16FromStr(sp.port), LAMBDA port : Port(sp, port))
  IN Bind(RSplitOnce(s), Split)

\* impl TryFrom<&str> for HostPortPair
TryFromStr(s) ==
  LET Port(sp, port) ==
        IF ~port.ok THEN ErrParsePort(port.err)
        ELSE OkPair(HostFromStr(sp.host), port.val)
      Split(sp) ==
        IF ~sp.some THEN ErrNoPort
        ELSE Bind(U16FromStr(sp.port), LAMBDA port : Port(sp, port))
  IN Bind(RSplitOnce(s), Split)

\* impl FromStr for HostPortPair
from_str(s) == TryFromStr(s)

(***************************************************************************)
(* Display.                                                                *)
(***************************************************************************)
RECURSIVE Digits(_, _)
\* The digits of n in the radix, lower case, without leading zeros.
Digits(n, radix) ==
  IF n < radix THEN <<LowerHex[n + 1]>>
  ELSE Append(Digits(n \div radix, radix), LowerHex[(n % radix) + 1])

\* impl Display for Ipv4Addr
DisplayIpv4(a) ==
  Digits(a[1], 10) \o <<".">> \o Digits(a[2], 10) \o <<".">> \o
  Digits(a[3], 10) \o <<".">> \o Digits(a[4], 10)

RECURSIVE FmtSubslice(_)
\* fmt_subslice: the segments in lower-case hexadecimal, joined by ':'.
FmtSubslice(segs) ==
  IF Len(segs) = 0 THEN <<>>
  ELSE IF Len(segs) = 1 THEN Digits(segs[1], 16)
  ELSE Digits(segs[1], 16) \o <<":">> \o FmtSubslice(Tail(segs))

RECURSIVE LongestZeroSpan(_, _, _, _)
\* The first longest run of zero segments: scanning from segment i with the
\* current run cur and the longest run so far.
LongestZeroSpan(segs, i, cur, longest) ==
  IF i > Len(segs) THEN longest
  ELSE IF segs[i] = 0
  THEN LET Grown(c) ==
             Bind(IF c.len > longest.len THEN c ELSE longest,
                  LAMBDA l : LongestZeroSpan(segs, i + 1, c, l))
       IN Bind([start |-> IF cur.len = 0 THEN i - 1 ELSE cur.start,
                len |-> cur.len + 1], Grown)
  ELSE LongestZeroSpan(segs, i + 1, [start |-> 0, len |-> 0], longest)

\* Ipv6Addr::to_ipv4_mapped is Some
IsIpv4Mapped(segs) ==
  /\ \A i \in 1..5 : segs[i] = 0
  /\ segs[6] = U16Max

\* impl Display for Ipv6Addr
DisplayIpv6(segs) ==
  IF IsIpv4Mapped(segs)
  THEN <<":", ":", "f", "f", "f", "f", ":">> \o
       DisplayIpv4(<<segs[7] \div 256, segs[7] % 256, segs[8] \div 256, segs[8] % 256>>)
  ELSE LET Compressed(z) ==
             IF z.len > 1
             THEN FmtSubslice(SubSeq(segs, 1, z.start)) \o <<":", ":">> \o
                  FmtSubslice(SubSeq(segs, z.start + z.len + 1, Len(segs)))
             ELSE FmtSubslice(segs)
       IN Bind(LongestZeroSpan(segs, 1, [start |-> 0, len |-> 0],
                               [start |-> 0, len |-> 0]), Compressed)

\* impl Display for IpAddr
DisplayIpAddr(ip) == IF ip.v = 4 THEN DisplayIpv4(ip.a) ELSE DisplayIpv6(ip.a)

\* Fault: an IPv6 address is written in brackets.
DisplayHost_Bracketed(host) ==
  IF host.tag = "IpAddr"
  THEN IF host.ip.v = 6 THEN <<"[">> \o DisplayIpAddr(host.ip) \o <<"]">>
       ELSE DisplayIpAddr(host.ip)
  ELSE host.name

\* impl Display for Host
DisplayHost(host) ==
  IF host.tag = "IpAddr" THEN DisplayIpAddr(host.ip) ELSE host.name

\* Fault: the pair is written as a socket address is, an IPv6 host in brackets.
DisplayPair_Bracketed(pair) ==
  (IF pair.host.tag = "IpAddr" /\ pair.host.ip.v = 6
   THEN <<"[">> \o DisplayIpAddr(pair.host.ip) \o <<"]">>
   ELSE DisplayHost(pair.host)) \o <<":">> \o Digits(pair.port, 10)

\* impl Display for HostPortPair: "{}:{}" of the host and the port
DisplayPair(pair) == DisplayHost(pair.host) \o <<":">> \o Digits(pair.port, 10)

(***************************************************************************)
(* The inputs the operations are applied to: every string over Alphabet of *)
(* at most MaxLen bytes, and the sample hosts alone and followed by ':' and *)
(* a sample port text.                                                     *)
(***************************************************************************)
Alphabet == {":", ".", "0", "1", "a", " "}

Strings(n) == UNION {[1..k -> Alphabet] : k \in 0..n}

\* Host texts longer than MaxLen or outside Alphabet.
SampleHeads ==
  { <<"1", ".", "2", ".", "3", ".", "4">>,   \* 1.2.3.4
    <<"2", "5", "5", ".", "2", "5", "5", ".", "2", "5", "5", ".", "2", "5", "5">>,   \* 255.255.255.255
    <<"2", "5", "6", ".", "1", ".", "1", ".", "1">>,   \* 256.1.1.1
    <<"0", "1", ".", "2", ".", "3", ".", "4">>,   \* 01.2.3.4
    <<"[", ":", ":", "1", "]">>,   \* [::1]
    <<":", ":", "1">>,   \* ::1
    <<":", ":", "f", "f", "f", "f", ":", "1", ".", "2", ".", "3", ".", "4">>,   \* ::ffff:1.2.3.4
    <<"1", ":", "0", ":", "0", ":", "2", ":", ":", "3">>,   \* 1:0:0:2::3
    <<"f", "e", "8", "0", ":", ":", "A">>,   \* fe80::A
    <<"1", ":", "2", ":", "3", ":", "4", ":", "5", ":", "6", ":", "7", ":", "8">>,   \* 1:2:3:4:5:6:7:8
    <<"e", "x", "a", "m", "p", "l", "e", ".", "c", "o", "m">>,   \* example.com
    <<"e", "x", "a", " ", "m", "p", "l", "e", ".", "c", "o", "m">>,   \* exa mple.com
    <<"A", "-", "b", "_", "9">>,   \* A-b_9
    <<"C3", "A9">>,   \* U+00E9
    <<"a", "/", "b">> }   \* a/b

\* Port texts.
SampleTails ==
  { <<"8", "0">>,   \* 80
    <<"8", "0", "8", "0">>,   \* 8080
    <<"6", "5", "5", "3", "5">>,   \* 65535
    <<"6", "5", "5", "3", "6">>,   \* 65536
    <<"9", "9", "9", "9", "9", "9">>,   \* 999999
    <<"0">>,   \* 0
    <<"0", "8", "0">>,   \* 080
    <<"+", "8", "0">>,   \* +80
    <<"-", "1">>,   \* -1
    <<" ", "8", "0">>,   \*  80
    <<"8", " ">>,   \* 8 
    <<"+">> }   \* +

SampleInputs ==
  SampleHeads \cup {h \o <<":">> \o t : h \in SampleHeads, t \in SampleTails}

Inputs == Strings(MaxLen) \cup SampleInputs

\* Addresses handed over as IpAddr or SocketAddr values.
SampleV4 == {<<1, 2, 3, 4>>, <<0, 0, 0, 0>>, <<255, 255, 255, 255>>}

SampleV6 ==
  { <<0, 0, 0, 0, 0, 0, 0, 1>>, <<0, 0, 0, 0, 0, 0, 0, 0>>,
    <<0, 0, 0, 0, 0, 65535, 258, 772>>, <<1, 0, 0, 2, 0, 0, 0, 3>>,
    <<1, 0, 2, 0, 3, 0, 4, 0>>, <<0, 0, 1, 0, 0, 1, 0, 0>>,
    <<65152, 0, 0, 0, 0, 0, 0, 10>>, <<1, 2, 3, 4, 5, 6, 7, 8>>,
    <<0, 1, 2, 3, 4, 5, 6, 7>>, <<0, 0, 0, 0, 0, 0, 258, 772>> }

SampleIps == {V4(a) : a \in SampleV4} \cup {V6(a) : a \in SampleV6}

SamplePorts == {0, 80, 8080, 65535}

(***************************************************************************)
(* The state machine.  input is the string argument, op the conversion     *)
(* that was called on it and res its value; shown is the text Display      *)
(* wrote for res, and back the value of parsing that text again.           *)
(***************************************************************************)
Init ==
  /\ input \in Inputs
  /\ pc = "start"
  /\ op = "none"
  /\ res = Nothing
  /\ shown = <<>>
  /\ back = Nothing

\* Host::from(String)
CallHostFromString ==
  /\ pc = "start"
  /\ pc' = "done"
  /\ op' = "host_from_string"
  /\ res' = JustHost(HostFromString(input))
  /\ UNCHANGED <<input, shown, back>>

\* Host::from(&String)
CallHostFromStringRef ==
  /\ pc = "start"
  /\ pc' = "done"
  /\ op' = "host_from_string_ref"
  /\ res' = JustHost(HostFromStringRef(input))
  /\ UNCHANGED <<input, shown, back>>

\* Host::from(&str)
CallHostFromStr ==
  /\ pc = "start"
  /\ pc' = "done"
  /\ op' = "host_from_str"
  /\ res' = JustHost(HostFromStr(input))
  /\ UNCHANGED <<input, shown, back>>

\* Host::from(IpAddr), Host::from(Ipv4Addr), Host::from(Ipv6Addr)
CallHostFromIpAddr ==
  \E ip \in SampleIps :
    /\ pc = "start"
    /\ pc' = "done"
    /\ op' = "host_from_ip_addr"
    /\ input' = <<>>
    /\ res' = JustHost(HostFromIpAddr(ip))
    /\ UNCHANGED <<shown, back>>

\* HostPortPair::from((host, port)) with the input as the host
CallFromTuple ==
  \E port \in SamplePorts :
    /\ pc = "start"
    /\ pc' = "done"
    /\ op' = "from_tuple"
    /\ res' = PairFromTuple(input, port)
    /\ UNCHANGED <<input, shown, back>>

\* HostPortPair::from(SocketAddr)
CallFromSocketAddr ==
  \E ip \in SampleIps, port \in SamplePorts :
    /\ pc = "start"
    /\ pc' = "done"
    /\ op' = "from_socket_addr"
    /\ input' = <<>>
    /\ res' = PairFromSocketAddr(ip, port)
    /\ UNCHANGED <<shown, back>>

\* HostPortPair::from(SocketAddrV4)
CallFromSocketAddrV4 ==
  \E a \in SampleV4, port \in SamplePorts :
    /\ pc = "start"
    /\ pc' = "done"
    /\ op' = "from_socket_addr_v4"
    /\ input' = <<>>
    /\ res' = PairFromSocketAddrV4(V4(a), port)
    /\ UNCHANGED <<shown, back>>

\* HostPortPair::from(SocketAddrV6)
CallFromSocketAddrV6 ==
  \E a \in SampleV6, port \in SamplePorts :
    /\ pc = "start"
    /\ pc' = "done"
    /\ op' = "from_socket_addr_v6"
    /\ input' = <<>>
    /\ res' = PairFromSocketAddrV6(V6(a), port)
    /\ UNCHANGED <<shown, back>>

\* HostPortPair::try_from(String)
CallTryFromString ==
  /\ pc = "start"
  /\ pc' = "done"
  /\ op' = "try_from_string"
  /\ res' = TryFromString(input)
  /\ UNCHANGED <<input, shown, back>>

\* HostPortPair::try_from(&String)
CallTryFromStringRef ==
  /\ pc = "start"
  /\ pc' = "done"
  /\ op' = "try_from_string_ref"
  /\ res' = TryFromStringRef(input)
  /\ UNCHANGED <<input, shown, back>>

\* HostPortPair::try_from(&str)
CallTryFromStr ==
  /\ pc = "start"
  /\ pc' = "done"
  /\ op' = "try_from_str"
  /\ res' = TryFromStr(input)
  /\ UNCHANGED <<input, shown, back>>

\* str::parse::<HostPortPair>()
CallFromStr ==
  /\ pc = "start"
  /\ pc' = "done"
  /\ op' = "from_str"
  /\ res' = from_str(input)
  /\ UNCHANGED <<input, shown, back>>

\* host.to_string() / pair.to_string() on the value a conversion returned
CallDisplay ==
  /\ pc = "done"
  /\ res.tag \in {"Ok", "Host"}
  /\ shown' = IF res.tag = "Ok" THEN DisplayPair(res) ELSE DisplayHost(res.host)
  /\ pc' = "shown"
  /\ UNCHANGED <<input, op, res, back>>

\* Parsing the text Display wrote for a pair.
Reparse ==
  /\ pc = "shown"
  /\ res.tag = "Ok"
  /\ back' = from_str(shown)
  /\ pc' = "reparsed"
  /\ UNCHANGED <<input, op, res, shown>>

Next ==
  \/ CallHostFromString
  \/ CallHostFromStringRef
  \/ CallHostFromStr
  \/ CallHostFromIpAddr
  \/ CallFromTuple
  \/ CallFromSocketAddr
  \/ CallFromSocketAddrV4
  \/ CallFromSocketAddrV6
  \/ CallTryFromString
  \/ CallTryFromStringRef
  \/ CallTryFromStr
  \/ CallFromStr
  \/ CallDisplay
  \/ Reparse

Spec == Init /\ [][Next]_vars

(***************************************************************************)
(* Vocabulary of the properties, stated apart from the operators above.    *)
(***************************************************************************)
\* The four fallible conversions of a string into a HostPortPair.
ParseOps == {"try_from_string", "try_from_string_ref", "try_from_str", "from_str"}

\* The three infallible conversions of a string into a Host.
HostOps == {"host_from_string", "host_from_string_ref", "host_from_str"}

DecimalDigits == {"0", "1", "2", "3", "4", "5", "6", "7", "8", "9"}

Letters ==
  { "a", "b", "c", "d", "e", "f", "g", "h", "i", "j", "k", "l", "m",
    "n", "o", "p", "q", "r", "s", "t", "u", "v", "w", "x", "y", "z",
    "A", "B", "C", "D", "E", "F", "G", "H", "I", "J", "K", "L", "M",
    "N", "O", "P", "Q", "R", "S", "T", "U", "V", "W", "X", "Y", "Z" }

\* The bytes the specification allows in a domain name.
AllowedBytes == DecimalDigits \cup Letters \cup {"-", ".", "_"}

IsAllowed(s) == \A i \in 1..Len(s) : s[i] \in AllowedBytes

NoColon(s) == \A i \in 1..Len(s) : s[i] # ":"

Before(s, i) == SubSeq(s, 1, i - 1)

After(s, i) == SubSeq(s, i + 1, Len(s))

\* Position i of s holds the last colon of s.
IsLastColon(s, i) == s[i] = ":" /\ NoColon(After(s, i))

RECURSIVE NumeralValue(_)
\* The value of a string of decimal digits; anything of more than nine
\* digits counts as too large for a port.
NumeralValue(t) ==
  IF Len(t) = 0 THEN 0
  ELSE IF Len(t) > 9 THEN U16Max + 1
  ELSE NumeralValue(SubSeq(t, 1, Len(t) - 1)) * 10
       + (CHOOSE d \in 0..9 : LowerHex[d + 1] = t[Len(t)])

\* One or more decimal digits of a value in 0..65535.
IsPortNumeral(t) ==
  /\ Len(t) > 0
  /\ \A i \in 1..Len(t) : t[i] \in DecimalDigits
  /\ NumeralValue(t) <= U16Max

\* A port numeral written without a leading zero.
IsCanonicalPort(t) == IsPortNumeral(t) /\ (Len(t) = 1 \/ t[1] # "0")

\* A port numeral, or one behind a single '+'.
IsAcceptedPort(t) ==
  \/ IsPortNumeral(t)
  \/ Len(t) > 1 /\ t[1] = "+" /\ IsPortNumeral(Tail(t))

PortValue(t) == IF t[1] = "+" THEN NumeralValue(Tail(t)) ELSE NumeralValue(t)

ParsesAsIp(h) == IpAddrFromStr(h).ok

IpOf(h) == IpAddrFromStr(h).ip

\* s is "ipv4:port" split at i, a numeric socket-address literal.
IsV4SocketLiteral(s, i) ==
  /\ s[i] = ":"
  /\ ParsesAsIp(Before(s, i)) /\ IpOf(Before(s, i)).v = 4
  /\ IsPortNumeral(After(s, i))

\* s is "[ipv6]:port" split at i, a numeric socket-address literal.
IsV6SocketLiteral(s, i) ==
  /\ i >= 3 /\ s[1] = "[" /\ s[i - 1] = "]" /\ s[i] = ":"
  /\ ParsesAsIp(SubSeq(s, 2, i - 2)) /\ IpOf(SubSeq(s, 2, i - 2)).v = 6
  /\ IsPortNumeral(After(s, i))

IsSocketLiteral(s) ==
  \E i \in 1..Len(s) : IsV4SocketLiteral(s, i) \/ IsV6SocketLiteral(s, i)

ErrIsParsePort == res.tag = "Err" /\ res.err = "ParsePort"

ExaMpleCom80 ==
  <<"e", "x", "a", " ", "m", "p", "l", "e", ".", "c", "o", "m", ":", "8", "0">>

BracketedLoopback8080 == <<"[", ":", ":", "1", "]", ":", "8", "0", "8", "0">>

Loopback == V6(<<0, 0, 0, 0, 0, 0, 0, 1>>)

(***************************************************************************)
(* C1.  IP-literal priority: whenever the text h parses as an IPv4 or IPv6 *)
(* address, Host::from(h) is the IpAddr variant holding that address, and  *)
(* so is the host of the pair parsed from h ":" p for every port 0..65535  *)
(* written in decimal; the result is never DnsName, also when h holds only *)
(* bytes a domain name may hold.                                           *)
(***************************************************************************)
C1_IpLiteralPriority ==
  /\ (op \in HostOps /\ ParsesAsIp(input))
       => res = JustHost(HostIpAddr(IpOf(input)))
  /\ op \in ParseOps =>
       \A i \in 1..Len(input) :
         (/\ input[i] = ":"
          /\ ParsesAsIp(Before(input, i))
          /\ IsCanonicalPort(After(input, i)))
           => res = OkPair(HostIpAddr(IpOf(Before(input, i))),
                           NumeralValue(After(input, i)))

\* An IPv4 literal, all of whose bytes a domain may hold, came out as IpAddr.
C1_Witness ==
  /\ op = "try_from_str"
  /\ \E i \in 1..Len(input) :
       /\ input[i] = ":"
       /\ ParsesAsIp(Before(input, i)) /\ IsAllowed(Before(input, i))
       /\ IsCanonicalPort(After(input, i))
  /\ res.tag = "Ok" /\ is_ip_address(res.host)

(***************************************************************************)
(* C2 as stated.  For every decimal port text p in 0..65535 and every d of *)
(* allowed bytes only, parsing d ":" p yields the DnsName pair with host d *)
(* and port p.                                                             *)
(***************************************************************************)
C2_Original ==
  op \in ParseOps =>
    \A i \in 1..Len(input) :
      (/\ input[i] = ":"
       /\ IsAllowed(Before(input, i))
       /\ IsPortNumeral(After(input, i)))
        => res = OkPair(HostDnsName(Before(input, i)), NumeralValue(After(input, i)))

(***************************************************************************)
(* C2 amended.  For every decimal port text p in 0..65535 (0 included) and *)
(* every d of allowed bytes only that does not parse as an IP address,     *)
(* parsing d ":" p yields the DnsName pair with host d verbatim and port   *)
(* p; a d that is an IPv4 literal yields the IpAddr pair instead.          *)
(***************************************************************************)
C2_Amended ==
  op \in ParseOps =>
    \A i \in 1..Len(input) :
      (/\ input[i] = ":"
       /\ IsAllowed(Before(input, i))
       /\ IsPortNumeral(After(input, i)))
        => res = OkPair(IF ParsesAsIp(Before(input, i))
                        THEN HostIpAddr(IpOf(Before(input, i)))
                        ELSE HostDnsName(Before(input, i)),
                        NumeralValue(After(input, i)))

\* A name with an upper-case letter and port 0 came out as DnsName, verbatim.
C2_Witness ==
  /\ op = "try_from_string_ref"
  /\ \E i \in 2..Len(input) :
       /\ input[i] = ":"
       /\ IsAllowed(Before(input, i)) /\ ~ParsesAsIp(Before(input, i))
       /\ \E k \in 1..(i - 1) : input[k] = "A"
       /\ After(input, i) = <<"0">>
       /\ res = OkPair(HostDnsName(Before(input, i)), 0)

C4_NoPortIffNoColon ==
  op \in ParseOps => ((res.tag = "Err" /\ res.err = "NoPort") <=> NoColon(input))

\* A non-empty input without a colon failed with NoPort.
C4_Witness ==
  /\ op = "from_str"
  /\ Len(input) > 0 /\ NoColon(input)
  /\ res = ErrNoPort

C6_Original ==
  op \in ParseOps =>
    \A i \in 1..Len(input) :
      (IsLastColon(input, i) /\ ~IsCanonicalPort(After(input, i))) => ErrIsParsePort

(***************************************************************************)
(* C6 amended.  For an input split on its last colon, parsing fails with   *)
(* ParsePort exactly when the tail is not one or more decimal digits of a  *)
(* value in 0..65535, optionally behind a single '+': leading zeros and a  *)
(* leading '+' are accepted and the port is the numeral's value, while an  *)
(* empty tail, whitespace, '-', any other non-digit and a value above      *)
(* 65535 are rejected.                                                     *)
(***************************************************************************)
C6_Amended ==
  op \in ParseOps =>
    \A i \in 1..Len(input) :
      IsLastColon(input, i) =>
        IF IsAcceptedPort(After(input, i))
        THEN res.tag = "Ok" /\ res.port = PortValue(After(input, i))
        ELSE ErrIsParsePort

\* A tail with a leading '+' and a leading zero was accepted.
C6_Witness ==
  /\ op = "try_from_string"
  /\ \E i \in 1..Len(input) :
       /\ IsLastColon(input, i)
       /\ After(input, i) \in {<<"+", "8", "0">>, <<"0", "8", "0">>}
  /\ res.tag = "Ok" /\ res.port = 80

(***************************************************************************)
(* C7.  Round trip: when parsing an input succeeds with a pair, parsing    *)
(* the text Display writes for that pair succeeds with an equal pair, also *)
(* when the host is an IPv6 address, which is written without brackets.    *)
(***************************************************************************)
C7_RoundTrip == (pc = "reparsed" /\ op \in ParseOps) => back = res

\* A parsed pair with an IPv6 host was written and parsed back.
C7_Witness ==
  /\ pc = "reparsed" /\ op \in ParseOps
  /\ is_ip_address(res.host) /\ res.host.ip.v = 6
  /\ \A k \in 1..Len(shown) : shown[k] \notin {"[", "]"}
  /\ back = res

(***************************************************************************)
(* C8.  The infallible conversions of a string into a Host validate        *)
(* nothing: a string that does not parse as an IP address becomes DnsName  *)
(* holding the string byte for byte, whatever bytes it holds.              *)
(***************************************************************************)
C8_LenientHost ==
  op \in HostOps =>
    /\ res.tag = "Host"
    /\ ~ParsesAsIp(input) => res.host = HostDnsName(input)

\* A string with a byte no domain may hold became DnsName of that string.
C8_Witness ==
  /\ op = "host_from_string_ref"
  /\ ~IsAllowed(input) /\ ~ParsesAsIp(input)
  /\ \E k \in 1..Len(input) : input[k] = " "
  /\ res = JustHost(HostDnsName(input))

(***************************************************************************)
(* C9.  Display of a pair is the host's text, one ':' and the port in      *)
(* decimal.  The host's text is the name verbatim for DnsName; for IpAddr  *)
(* it is the address's text, which reads back as that address and has no   *)
(* brackets and no upper-case digits.  The pair (::1, 8080) is written     *)
(* "::1:8080".                                                             *)
(***************************************************************************)
C9_DisplayForm ==
  (pc \in {"shown", "reparsed"} /\ res.tag = "Ok") =>
    /\ \E i \in 1..Len(shown) :
         /\ IsLastColon(shown, i)
         /\ IsCanonicalPort(After(shown, i))
         /\ NumeralValue(After(shown, i)) = res.port
         /\ IF is_dns_name(res.host)
            THEN Before(shown, i) = res.host.name
            ELSE /\ ParsesAsIp(Before(shown, i))
                 /\ IpOf(Before(shown, i)) = res.host.ip
                 /\ \A k \in 1..(i - 1) :
                      shown[k] \in DecimalDigits \cup {"a", "b", "c", "d", "e", "f", ":", "."}
    /\ (res.host = HostIpAddr(Loopback) /\ res.port = 8080)
         => shown = <<":", ":", "1", ":", "8", "0", "8", "0">>
    /\ (res.host = HostIpAddr(V4(<<1, 2, 3, 4>>)) /\ res.port = 80)
         => shown = <<"1", ".", "2", ".", "3", ".", "4", ":", "8", "0">>

\* The pair (::1, 8080) was written as "::1:8080".
C9_Witness ==
  /\ pc = "shown"
  /\ res = OkPair(HostIpAddr(Loopback), 8080)
  /\ shown = <<":", ":", "1", ":", "8", "0", "8", "0">>

(***************************************************************************)
(* C10.  The four fallible conversions agree on every input: the value     *)
(* each returned is the value each of the others returns for that input,   *)
(* the owned-String one, which truncates its argument in place, included.  *)
(***************************************************************************)
C10_EntryPointsAgree ==
  /\ op \in {"try_from_string", "try_from_string_ref", "from_str"}
       => res = TryFromStr(input)
  /\ op = "try_from_str"
       => (res = TryFromString(input) /\ res = TryFromStringRef(input)
           /\ res = from_str(input))

\* The owned-String conversion returned a pair with a non-empty DnsName host.
C10_Witness ==
  /\ op = "try_from_string"
  /\ res.tag = "Ok" /\ is_dns_name(res.host) /\ Len(res.host.name) > 0
  /\ res = TryFromStr(input)

====
